---- MODULE Spec2Model ----
(***************************************************************************)
(* Model of src/app.py: the knowledge-base web application that scans a    *)
(* data directory of document folders, extracts a title and content from   *)
(* each folder's markdown file, searches the resulting list and rewrites   *)
(* image references before rendering.                                      *)
(*                                                                         *)
(* Text is modelled as a sequence of characters, each character a string   *)
(* of length one, e.g. "# a" is <<"#", " ", "a">>; a Cyrillic letter is    *)
(* written as its code point, e.g. "U+041E".                               *)
(*                                                                         *)
(* A handler reads the data root in separate system calls (os.listdir,     *)
(* os.path.isdir, os.path.exists, os.path.getmtime, open), and another     *)
(* process may change the data root between any two of them.  A request is *)
(* therefore a sequence of steps, one per system call, and the actions     *)
(* that change the filesystem are enabled between them.                    *)
(*                                                                         *)
(* Specifications:                                                         *)
(*   Spec        the data root changes before and during requests;         *)
(*               /api/instructions lists it                                *)
(*   SpecTitle   a scan of one folder for every short markdown text        *)
(*   SpecSearch  search_in_instructions on bounded documents and queries   *)
(*   SpecImage   the image pass of markdown_to_html on bounded texts       *)
(*   SpecRoutes  the six route handlers, with and without a raised error,  *)
(*               while folders are removed from the data root              *)
(***************************************************************************)
EXTENDS Integers, Sequences, FiniteSets, TLC

VARIABLES
    fs,            \* the data root: entry name -> Absent, a plain file or a folder
    rootMode,      \* permission bits of the data root: r lets it be listed,
                   \* x lets the paths below it be resolved
    rootOrder,     \* enumeration order os.listdir returns for the data root
    pc,            \* the system call the handler in progress makes next
    req,           \* the request in progress: route, arguments and the calls
                   \* of it that raise
    scan,          \* locals of the scan_instructions call in progress
    info,          \* local `info` of the extract_instruction_info call
    instructions,  \* the handler's local list `instructions`
    resp,          \* the response of the request being answered
    touched,       \* the entries of the data root changed since the request
                   \* in progress arrived, in the order of the changes
                   \* (history, read by the properties only)
    query,         \* search_in_instructions: the query argument
    results,       \* search_in_instructions: the list it returns
    content,       \* markdown_to_html: the document id and the markdown handed
                   \* to the image pass
    rewritten      \* markdown_to_html: the markdown after the image pass

vars == <<fs, rootMode, rootOrder, pc, req, scan, info, instructions, resp,
          touched, query, results, content, rewritten>>

-----------------------------------------------------------------------------
(* Bounds of the model *)

MaxFiles == 2
MaxTime == 2
MaxLen == 5
MaxField == 2
MaxQuery == 3
MaxTokens == 5

\* changes of the data root during one request
MaxChanges == 2

\* a variable the specification at hand does not use
None == <<>>

\* an entry of the data root that does not exist
Absent == [kind |-> "absent"]

\* an entry of the data root that is a plain file, with its mtime
PlainFile(modified) == [kind |-> "file", modified |-> modified]

-----------------------------------------------------------------------------
(* Characters and strings *)

\* the capital letters of the model's texts, Latin and Cyrillic, each with the
\* letter str.lower() turns it into; a character beyond ASCII is written as
\* its code point
LowerOf ==
    "A" :> "a" @@ "B" :> "b" @@ "C" :> "c" @@ "D" :> "d" @@ "E" :> "e"
    @@ "F" :> "f" @@ "G" :> "g" @@ "H" :> "h" @@ "I" :> "i" @@ "J" :> "j"
    @@ "K" :> "k" @@ "L" :> "l" @@ "M" :> "m" @@ "N" :> "n" @@ "O" :> "o"
    @@ "P" :> "p" @@ "Q" :> "q" @@ "R" :> "r" @@ "S" :> "s" @@ "T" :> "t"
    @@ "U" :> "u" @@ "V" :> "v" @@ "W" :> "w" @@ "X" :> "x" @@ "Y" :> "y"
    @@ "Z" :> "z" @@ "U+0401" :> "U+0451" @@ "U+0410" :> "U+0430"
    @@ "U+0411" :> "U+0431" @@ "U+0412" :> "U+0432" @@ "U+0413" :> "U+0433"
    @@ "U+0414" :> "U+0434" @@ "U+0415" :> "U+0435" @@ "U+0416" :> "U+0436"
    @@ "U+0417" :> "U+0437" @@ "U+0418" :> "U+0438" @@ "U+0419" :> "U+0439"
    @@ "U+041A" :> "U+043A" @@ "U+041B" :> "U+043B" @@ "U+041C" :> "U+043C"
    @@ "U+041D" :> "U+043D" @@ "U+041E" :> "U+043E" @@ "U+041F" :> "U+043F"
    @@ "U+0420" :> "U+0440" @@ "U+0421" :> "U+0441" @@ "U+0422" :> "U+0442"
    @@ "U+0423" :> "U+0443" @@ "U+0424" :> "U+0444" @@ "U+0425" :> "U+0445"
    @@ "U+0426" :> "U+0446" @@ "U+0427" :> "U+0447" @@ "U+0428" :> "U+0448"
    @@ "U+0429" :> "U+0449" @@ "U+042A" :> "U+044A" @@ "U+042B" :> "U+044B"
    @@ "U+042C" :> "U+044C" @@ "U+042D" :> "U+044D" @@ "U+042E" :> "U+044E"
    @@ "U+042F" :> "U+044F"

\* str.lower() on one character: a capital becomes its small letter, and
\* every other character of the model's texts (small letters, digits,
\* punctuation, blanks) is kept
LowerChar(c) == IF c \in DOMAIN LowerOf THEN LowerOf[c] ELSE c

\* str.lower()
Lower(s) == [i \in 1..Len(s) |-> LowerChar(s[i])]

\* the code points of the characters of the model's texts
CodePoints ==
    "\n" :> 10 @@ " " :> 32 @@ "!" :> 33 @@ "#" :> 35 @@ "'" :> 39
    @@ "(" :> 40 @@ ")" :> 41 @@ "-" :> 45 @@ "." :> 46 @@ "/" :> 47
    @@ "0" :> 48 @@ "1" :> 49 @@ "2" :> 50 @@ "3" :> 51 @@ "4" :> 52
    @@ "5" :> 53 @@ "6" :> 54 @@ "7" :> 55 @@ "8" :> 56 @@ "9" :> 57
    @@ ":" :> 58 @@ "A" :> 65 @@ "B" :> 66 @@ "C" :> 67 @@ "D" :> 68
    @@ "E" :> 69 @@ "F" :> 70 @@ "G" :> 71 @@ "H" :> 72 @@ "I" :> 73
    @@ "J" :> 74 @@ "K" :> 75 @@ "L" :> 76 @@ "M" :> 77 @@ "N" :> 78
    @@ "O" :> 79 @@ "P" :> 80 @@ "Q" :> 81 @@ "R" :> 82 @@ "S" :> 83
    @@ "T" :> 84 @@ "U" :> 85 @@ "V" :> 86 @@ "W" :> 87 @@ "X" :> 88
    @@ "Y" :> 89 @@ "Z" :> 90 @@ "[" :> 91 @@ "]" :> 93 @@ "a" :> 97
    @@ "b" :> 98 @@ "c" :> 99 @@ "d" :> 100 @@ "e" :> 101 @@ "f" :> 102
    @@ "g" :> 103 @@ "h" :> 104 @@ "i" :> 105 @@ "j" :> 106 @@ "k" :> 107
    @@ "l" :> 108 @@ "m" :> 109 @@ "n" :> 110 @@ "o" :> 111 @@ "p" :> 112
    @@ "q" :> 113 @@ "r" :> 114 @@ "s" :> 115 @@ "t" :> 116 @@ "u" :> 117
    @@ "v" :> 118 @@ "w" :> 119 @@ "x" :> 120 @@ "y" :> 121 @@ "z" :> 122
    @@ "U+0401" :> 1025 @@ "U+0410" :> 1040 @@ "U+0411" :> 1041
    @@ "U+0412" :> 1042 @@ "U+0413" :> 1043 @@ "U+0414" :> 1044
    @@ "U+0415" :> 1045 @@ "U+0416" :> 1046 @@ "U+0417" :> 1047
    @@ "U+0418" :> 1048 @@ "U+0419" :> 1049 @@ "U+041A" :> 1050
    @@ "U+041B" :> 1051 @@ "U+041C" :> 1052 @@ "U+041D" :> 1053
    @@ "U+041E" :> 1054 @@ "U+041F" :> 1055 @@ "U+0420" :> 1056
    @@ "U+0421" :> 1057 @@ "U+0422" :> 1058 @@ "U+0423" :> 1059
    @@ "U+0424" :> 1060 @@ "U+0425" :> 1061 @@ "U+0426" :> 1062
    @@ "U+0427" :> 1063 @@ "U+0428" :> 1064 @@ "U+0429" :> 1065
    @@ "U+042A" :> 1066 @@ "U+042B" :> 1067 @@ "U+042C" :> 1068
    @@ "U+042D" :> 1069 @@ "U+042E" :> 1070 @@ "U+042F" :> 1071
    @@ "U+0430" :> 1072 @@ "U+0431" :> 1073 @@ "U+0432" :> 1074
    @@ "U+0433" :> 1075 @@ "U+0434" :> 1076 @@ "U+0435" :> 1077
    @@ "U+0436" :> 1078 @@ "U+0437" :> 1079 @@ "U+0438" :> 1080
    @@ "U+0439" :> 1081 @@ "U+043A" :> 1082 @@ "U+043B" :> 1083
    @@ "U+043C" :> 1084 @@ "U+043D" :> 1085 @@ "U+043E" :> 1086
    @@ "U+043F" :> 1087 @@ "U+0440" :> 1088 @@ "U+0441" :> 1089
    @@ "U+0442" :> 1090 @@ "U+0443" :> 1091 @@ "U+0444" :> 1092
    @@ "U+0445" :> 1093 @@ "U+0446" :> 1094 @@ "U+0447" :> 1095
    @@ "U+0448" :> 1096 @@ "U+0449" :> 1097 @@ "U+044A" :> 1098
    @@ "U+044B" :> 1099 @@ "U+044C" :> 1100 @@ "U+044D" :> 1101
    @@ "U+044E" :> 1102 @@ "U+044F" :> 1103 @@ "U+0451" :> 1105

\* code point of a character (ord)
Ord(c) == CodePoints[c]

\* Python's `<` on str: lexicographic by code point
RECURSIVE StrLess(_, _)
StrLess(s, t) ==
    IF t = <<>> THEN FALSE
    ELSE IF s = <<>> THEN TRUE
    ELSE IF Ord(Head(s)) # Ord(Head(t)) THEN Ord(Head(s)) < Ord(Head(t))
    ELSE StrLess(Tail(s), Tail(t))

\* s[i:] with a 1-based first index
From(s, i) == SubSeq(s, i, Len(s))

\* s.startswith(p)
StartsWith(s, p) == Len(p) <= Len(s) /\ SubSeq(s, 1, Len(p)) = p

\* s.find(q), 1-based; 0 when q does not occur
Find(s, q) ==
    LET hits == {i \in 1..(Len(s) - Len(q) + 1) : SubSeq(s, i, i + Len(q) - 1) = q}
    IN  IF hits = {} THEN 0 ELSE CHOOSE i \in hits : \A j \in hits : i <= j

\* `q in s`
Contains(s, q) == Find(s, q) # 0

\* the characters \s matches and str.strip()/str.split() treat as blank
IsSpace(c) == c \in {" ", "\n"}

\* str.strip()
RECURSIVE LStrip(_)
LStrip(s) == IF s # <<>> /\ IsSpace(Head(s)) THEN LStrip(Tail(s)) ELSE s

RECURSIVE RStrip(_)
RStrip(s) ==
    IF s # <<>> /\ IsSpace(s[Len(s)]) THEN RStrip(SubSeq(s, 1, Len(s) - 1)) ELSE s

Strip(s) == RStrip(LStrip(s))

\* length of the run of non-blank characters s starts with
RECURSIVE WordLen(_)
WordLen(s) == IF s = <<>> \/ IsSpace(Head(s)) THEN 0 ELSE 1 + WordLen(Tail(s))

\* str.split() with no argument: the maximal runs of non-blank characters
RECURSIVE Split(_)
Split(s) ==
    LET t == LStrip(s)
        n == WordLen(t)
    IN  IF t = <<>> THEN <<>> ELSE <<SubSeq(t, 1, n)>> \o Split(From(t, n + 1))

\* all strings over alphabet A of length at most n
RECURSIVE Strings(_, _)
Strings(A, n) ==
    IF n = 0 THEN {<<>>}
    ELSE LET shorter == Strings(A, n - 1)
         IN  shorter \cup {Append(s, c) : s \in shorter, c \in A}

-----------------------------------------------------------------------------
(* TITLE_PATTERN = re.compile(r'#\s+(.+)$', re.MULTILINE) *)

\* length of the run of \s characters s starts with
RECURSIVE SpaceRun(_)
SpaceRun(s) == IF s # <<>> /\ IsSpace(Head(s)) THEN 1 + SpaceRun(Tail(s)) ELSE 0

\* the rest of the line s starts with: (.+)$ under re.MULTILINE
RECURSIVE LineRest(_)
LineRest(s) ==
    IF s = <<>> \/ Head(s) = "\n" THEN <<>> ELSE <<Head(s)>> \o LineRest(Tail(s))

\* the number of characters j that \s+ keeps at position i (the character after
\* a '#'), greedy with backtracking: the largest j >= 1 such that a character
\* other than a newline follows; 0 when the pattern does not match here
TitleSpaces(s, i) ==
    LET k == SpaceRun(From(s, i))
        ok == {j \in 1..k : i + j <= Len(s) /\ s[i + j] # "\n"}
    IN  IF ok = {} THEN 0 ELSE CHOOSE j \in ok : \A m \in ok : m <= j

\* TITLE_PATTERN.search(content): the leftmost '#' at which the pattern matches
TitleSearch(s) ==
    LET at == {i \in 1..Len(s) : s[i] = "#" /\ TitleSpaces(s, i + 1) > 0}
    IN  IF at = {} THEN [found |-> FALSE, group |-> <<>>]
        ELSE LET i == CHOOSE x \in at : \A y \in at : x <= y
             IN  [found |-> TRUE,
                  group |-> LineRest(From(s, i + 1 + TitleSpaces(s, i + 1)))]

-----------------------------------------------------------------------------
(* The data root and its folders *)

\* names of the entries the data root can hold (folder base names)
Names == {<<"a">>, <<"B">>}

\* permission bits of a directory: r lets os.listdir read its names, x lets
\* the paths below it be resolved
Mode(r, x) == [r |-> r, x |-> x]

\* chmod 755 and chmod 000, the modes another process gives a directory
FullMode == Mode(TRUE, TRUE)
NoMode == Mode(FALSE, FALSE)

Modes == {FullMode, NoMode}

\* a file of a folder: stem and extension of its name, whether its own
\* permission bits let it be read, and its text
MdFile(stem, readable, text) ==
    [stem |-> stem, ext |-> "md", readable |-> readable, text |-> text]

ImageFile(stem, ext) ==
    [stem |-> stem, ext |-> ext, readable |-> TRUE, text |-> <<>>]

\* a document folder: its permission bits, its mtime, and its files in the
\* order os.listdir enumerates them
Folder(mode, modified, files) ==
    [kind |-> "dir", mode |-> mode, modified |-> modified, files |-> files]

IsDir(entry) == entry.kind = "dir"

\* str.lower() on a file extension
LowerExt(e) ==
    CASE e = "PNG" -> "png"
      [] e = "MD" -> "md"
      [] OTHER -> e

ImageExts == {"jpg", "jpeg", "png", "gif", "webp"}

\* app.config['DATA_FOLDER'], 'data' unless the environment names another
DataFolder == <<"d", "a", "t", "a">>

\* os.path.join(data_folder, folder)
FolderPath(name) == DataFolder \o <<"/">> \o name

\* str() of an integer below 100
Digit(d) ==
    CASE d = 0 -> "0" [] d = 1 -> "1" [] d = 2 -> "2" [] d = 3 -> "3"
      [] d = 4 -> "4" [] d = 5 -> "5" [] d = 6 -> "6" [] d = 7 -> "7"
      [] d = 8 -> "8" [] d = 9 -> "9"

Decimal(n) == IF n < 10 THEN <<Digit(n)>> ELSE <<Digit(n \div 10), Digit(n % 10)>>

\* the characters of a file extension
ExtChars(e) ==
    CASE e = "md" -> <<"m", "d">>
      [] e = "MD" -> <<"M", "D">>
      [] e = "png" -> <<"p", "n", "g">>
      [] e = "PNG" -> <<"P", "N", "G">>

\* the name os.listdir returns for a file; filename is <<stem, extension>>
FileName(filename) == Decimal(filename[1]) \o <<".">> \o ExtChars(filename[2])

\* os.path.join(folder_path, file)
FilePath(name, filename) == FolderPath(name) \o <<"/">> \o FileName(filename)

\* the number of an OSError, as str(e) shows it
ErrnoText(err) ==
    CASE err = "ENOENT" -> <<"2">>
      [] err = "EACCES" -> <<"1", "3">>
      [] err = "ENOTDIR" -> <<"2", "0">>

\* os.strerror of an OSError
ErrnoMessage(err) ==
    CASE err = "ENOENT" ->
             <<"N", "o", " ", "s", "u", "c", "h", " ", "f", "i", "l", "e", " ",
               "o", "r", " ", "d", "i", "r", "e", "c", "t", "o", "r", "y">>
      [] err = "EACCES" ->
             <<"P", "e", "r", "m", "i", "s", "s", "i", "o", "n", " ", "d", "e",
               "n", "i", "e", "d">>
      [] err = "ENOTDIR" ->
             <<"N", "o", "t", " ", "a", " ", "d", "i", "r", "e", "c", "t", "o",
               "r", "y">>

\* str(e) of the OSError a system call on path raises:
\* "[Errno 13] Permission denied: 'data/a'"
StrError(err, path) ==
    <<"[", "E", "r", "r", "n", "o", " ">> \o ErrnoText(err) \o <<"]", " ">>
        \o ErrnoMessage(err) \o <<":", " ", "'">> \o path \o <<"'">>

\* the f-string of line 62, the localized "read error: " followed by str(e)
ReadErrorContent(err, path) ==
    <<"U+041E", "U+0448", "U+0438", "U+0431", "U+043A", "U+0430", " ",
      "U+0447", "U+0442", "U+0435", "U+043D", "U+0438", "U+044F", " ",
      "U+0444", "U+0430", "U+0439", "U+043B", "U+0430", ":", " ">>
        \o StrError(err, path)

\* the f-string of line 71, the localized "error: " followed by str(e)
ErrorTitle(err, path) ==
    <<"U+041E", "U+0448", "U+0438", "U+0431", "U+043A", "U+0430", ":", " ">>
        \o StrError(err, path)

\* the error os.stat fails with on the entry n of the data root, "" when it
\* succeeds: os.path.exists and os.path.isdir answer False on an error,
\* os.path.getmtime raises it
StatError(n) ==
    IF ~rootMode.x THEN "EACCES"
    ELSE IF fs[n] = Absent THEN "ENOENT"
    ELSE ""

\* the error os.listdir(folder_path) raises, "" when it returns
ListError(n) ==
    IF StatError(n) # "" THEN StatError(n)
    ELSE IF ~IsDir(fs[n]) THEN "ENOTDIR"
    ELSE IF ~fs[n].mode.r THEN "EACCES"
    ELSE ""

\* the positions of the file named filename in the listing of a folder
FileAt(entry, filename) ==
    {i \in 1..Len(entry.files) :
        <<entry.files[i].stem, entry.files[i].ext>> = filename}

\* the error open(file_path) raises, "" when the file is opened and read
OpenError(n, filename) ==
    IF StatError(n) # "" THEN StatError(n)
    ELSE IF ~IsDir(fs[n]) THEN "ENOTDIR"
    ELSE IF ~fs[n].mode.x THEN "EACCES"
    ELSE IF FileAt(fs[n], filename) = {} THEN "ENOENT"
    ELSE IF ~fs[n].files[CHOOSE i \in FileAt(fs[n], filename) : TRUE].readable
    THEN "EACCES"
    ELSE ""

\* mutant of ReadFile: a failed read leaves the content empty
ReadFileSilent(inf, name, filename, opened) ==
    IF filename[2] = "md"
    THEN IF opened.error = ""
         THEN LET match == TitleSearch(opened.text)
              IN  [inf EXCEPT !.title = IF match.found THEN match.group ELSE @,
                              !.content = opened.text]
         ELSE [inf EXCEPT !.content = <<>>]
    ELSE IF LowerExt(filename[2]) \in ImageExts
         THEN [inf EXCEPT !.images = Append(@, filename)]
         ELSE inf

\* one iteration of the loop over os.listdir(folder_path), lines 50-64, for
\* the file named filename of the folder name; opened is what open() and
\* read() of lines 53-54 gave
ReadFile(inf, name, filename, opened) ==
    IF filename[2] = "md"
    THEN IF opened.error = ""
         THEN LET match == TitleSearch(opened.text)
              IN  [inf EXCEPT !.title = IF match.found THEN match.group ELSE @,
                              !.content = opened.text]
         ELSE [inf EXCEPT !.content =
                              ReadErrorContent(opened.error,
                                               FilePath(name, filename))]
    ELSE IF LowerExt(filename[2]) \in ImageExts
         THEN [inf EXCEPT !.images = Append(@, filename)]
         ELSE inf

\* `info` as extract_instruction_info builds it at lines 35-41; `modified` is
\* what the conditional expression of line 40 evaluated to
StartInfo(name, modified) ==
    [id |-> name, title |-> name, content |-> <<>>, images |-> <<>>,
     modified |-> modified]

\* the dictionary the outer `except` of extract_instruction_info returns when
\* a system call on the folder raised err
ErrorInfo(name, err) ==
    [id |-> name, title |-> ErrorTitle(err, FolderPath(name)),
     content |-> <<>>, images |-> <<>>, modified |-> 0]

\* os.path.getmtime of an entry that exists, a folder or a plain file
MTime(entry) == entry.modified

\* whether os.listdir(folder_path) returns instead of raising
CanList(n) == ListError(n) = ""

\* the names os.listdir(folder_path) returns, <<stem, extension>> each
FileNames(entry) ==
    [i \in 1..Len(entry.files) |-> <<entry.files[i].stem, entry.files[i].ext>>]

\* what open(file_path) and f.read() give for the file named filename of the
\* folder n when they are called: the error raised, or the text read
Opened(n, filename) ==
    IF OpenError(n, filename) # ""
    THEN [error |-> OpenError(n, filename), text |-> <<>>]
    ELSE [error |-> "",
          text |-> fs[n].files[CHOOSE i \in FileAt(fs[n], filename) : TRUE].text]

ModifiedDesc(x, y) == x.modified > y.modified
ModifiedAsc(x, y) == x.modified < y.modified
TitleAsc(x, y) == StrLess(Lower(x.title), Lower(y.title))

\* whether x's sort key comes strictly before y's under the named ordering
Before(ordering, x, y) ==
    CASE ordering = "modified_desc" -> ModifiedDesc(x, y)
      [] ordering = "modified_asc" -> ModifiedAsc(x, y)
      [] ordering = "title" -> TitleAsc(x, y)

\* list.sort, which is stable, under the named ordering
SortedBy(s, ordering) ==
    LET n == Len(s)
        rank(i) == Cardinality({j \in 1..n :
                       \/ Before(ordering, s[j], s[i])
                       \/ (~Before(ordering, s[i], s[j]) /\ j < i)})
    IN  [p \in 1..n |-> s[CHOOSE i \in 1..n : rank(i) = p - 1]]

\* mutant of ListDir: the listing stops after its first entry
ListDirFirst(fsys, order) ==
    LET all == SelectSeq(order, LAMBDA n : fsys[n] # Absent)
    IN  IF all = <<>> THEN <<>> ELSE <<Head(all)>>

\* the entries os.listdir(data_folder) returns, in enumeration order
ListDir(fsys, order) == SelectSeq(order, LAMBDA n : fsys[n] # Absent)

-----------------------------------------------------------------------------
(* search_in_instructions *)

\* characters of context search_in_instructions keeps on each side of a match
PreviewRadius == 100

\* the `preview` search_in_instructions attaches to a matching document;
\* q is the lowered, stripped query
SearchPreview(instr, q, search_type) ==
    IF search_type = "title"
    THEN [id |-> instr.id, title |-> instr.title, content |-> instr.content,
          images |-> instr.images, modified |-> instr.modified,
          preview |-> [kind |-> "title", title |-> instr.title]]
    ELSE LET text == instr.content
             query_pos == Find(Lower(text), q) - 1
             start == IF query_pos - PreviewRadius > 0
                      THEN query_pos - PreviewRadius ELSE 0
             stop == IF query_pos + Len(q) + PreviewRadius < Len(text)
                     THEN query_pos + Len(q) + PreviewRadius ELSE Len(text)
             preview == SubSeq(text, start + 1, stop)
             in_preview == Find(Lower(preview), q) - 1
         IN  [id |-> instr.id, title |-> instr.title, content |-> instr.content,
              images |-> instr.images, modified |-> instr.modified,
              preview |-> [kind |-> "content", title |-> instr.title,
                           before |-> SubSeq(preview, 1, in_preview),
                           found |-> SubSeq(preview, in_preview + 1,
                                            in_preview + Len(q)),
                           after |-> From(preview, in_preview + Len(q) + 1)]]

\* all(word in text for word in words)
AllIn(words, text) == \A i \in 1..Len(words) : Contains(text, words[i])

\* any(word in text for word in words)
AnyIn(words, text) == \E i \in 1..Len(words) : Contains(text, words[i])

\* mutant of Matches: in mode `all` each word may be found in either field
MatchesSplit(instr, q, search_type, search_mode) ==
    LET content_lower == Lower(instr.content)
        title_lower == Lower(instr.title)
    IN  IF search_type = "title" THEN Contains(title_lower, q)
        ELSE IF search_type = "content" THEN Contains(content_lower, q)
        ELSE IF search_type = "advanced"
        THEN IF search_mode = "exact"
             THEN Contains(content_lower, q) \/ Contains(title_lower, q)
             ELSE IF search_mode = "all"
             THEN \A i \in 1..Len(Split(q)) :
                      Contains(content_lower, Split(q)[i])
                          \/ Contains(title_lower, Split(q)[i])
             ELSE AnyIn(Split(q), content_lower) \/ AnyIn(Split(q), title_lower)
        ELSE FALSE

\* mutant of Matches: mode `any` looks at the title only
MatchesAnyTitle(instr, q, search_type, search_mode) ==
    LET content_lower == Lower(instr.content)
        title_lower == Lower(instr.title)
    IN  IF search_type = "title" THEN Contains(title_lower, q)
        ELSE IF search_type = "content" THEN Contains(content_lower, q)
        ELSE IF search_type = "advanced"
        THEN IF search_mode = "exact"
             THEN Contains(content_lower, q) \/ Contains(title_lower, q)
             ELSE IF search_mode = "all"
             THEN AllIn(Split(q), content_lower) \/ AllIn(Split(q), title_lower)
             ELSE AnyIn(Split(q), title_lower)
        ELSE FALSE

\* whether the loop body appends instr to results; q is the lowered, stripped
\* query
Matches(instr, q, search_type, search_mode) ==
    LET content_lower == Lower(instr.content)
        title_lower == Lower(instr.title)
    IN  IF search_type = "title" THEN Contains(title_lower, q)
        ELSE IF search_type = "content" THEN Contains(content_lower, q)
        ELSE IF search_type = "advanced"
        THEN IF search_mode = "exact"
             THEN Contains(content_lower, q) \/ Contains(title_lower, q)
             ELSE IF search_mode = "all"
             THEN AllIn(Split(q), content_lower) \/ AllIn(Split(q), title_lower)
             ELSE AnyIn(Split(q), content_lower) \/ AnyIn(Split(q), title_lower)
        ELSE FALSE

\* the loop of search_in_instructions
RECURSIVE SearchLoop(_, _, _, _)
SearchLoop(instrs, q, search_type, search_mode) ==
    IF instrs = <<>> THEN <<>>
    ELSE LET instr == Head(instrs)
             rest == SearchLoop(Tail(instrs), q, search_type, search_mode)
         IN  IF Matches(instr, q, search_type, search_mode)
             THEN IF search_type \in {"title", "content"}
                  THEN <<SearchPreview(instr, q, search_type)>> \o rest
                  ELSE <<instr>> \o rest
             ELSE rest

\* search_in_instructions(instructions, query, search_type, search_mode)
SearchInInstructions(instrs, q, search_type, search_mode) ==
    IF q = <<>> THEN instrs
    ELSE SearchLoop(instrs, Strip(Lower(q)), search_type, search_mode)

\* the caller's list after search_in_instructions returned: lines 177 and
\* 202 write the preview into the caller's dictionaries, the advanced search
\* writes nothing
SearchedList(instrs, q, search_type, search_mode) ==
    IF q = <<>> \/ search_type \notin {"title", "content"} THEN instrs
    ELSE [i \in 1..Len(instrs) |->
             IF Matches(instrs[i], Strip(Lower(q)), search_type, search_mode)
             THEN SearchPreview(instrs[i], Strip(Lower(q)), search_type)
             ELSE instrs[i]]

-----------------------------------------------------------------------------
(* convert_buildin_links and the image pass of markdown_to_html *)

\* the literal text "https://buildin.ai/share/" of buildin_pattern
BuildinPrefix ==
    <<"h", "t", "t", "p", "s", ":", "/", "/", "b", "u", "i", "l", "d", "i", "n",
      ".", "a", "i", "/", "s", "h", "a", "r", "e", "/">>

\* the literal text "/instruction/"
InstructionRoute ==
    <<"/", "i", "n", "s", "t", "r", "u", "c", "t", "i", "o", "n", "/">>

\* the characters [a-f0-9-] matches
HexChars == {"a", "b", "c", "d", "e", "f", "0", "1", "2", "3", "4", "5", "6",
             "7", "8", "9", "-"}

\* length of the run of [a-f0-9-] characters s starts with
RECURSIVE HexRun(_)
HexRun(s) == IF s # <<>> /\ Head(s) \in HexChars THEN 1 + HexRun(Tail(s)) ELSE 0

\* replace_link: the route of the first instruction whose id or title contains
\* the share id, or the link itself
ReplaceLink(link, buildin_id, instrs) ==
    LET hits == {i \in 1..Len(instrs) :
                    Contains(instrs[i].id, buildin_id)
                        \/ Contains(instrs[i].title, buildin_id)}
    IN  IF hits = {} THEN link
        ELSE LET i == CHOOSE x \in hits : \A y \in hits : x <= y
             IN  InstructionRoute \o instrs[i].id

\* convert_buildin_links(content, instructions_dict); instrs lists the values
\* of instructions_dict in insertion order
RECURSIVE ConvertBuildinLinks(_, _)
ConvertBuildinLinks(s, instrs) ==
    LET n == Len(BuildinPrefix)
    IN  IF s = <<>> THEN <<>>
        ELSE IF StartsWith(s, BuildinPrefix) /\ HexRun(From(s, n + 1)) > 0
        THEN LET k == HexRun(From(s, n + 1))
             IN  ReplaceLink(SubSeq(s, 1, n + k), SubSeq(s, n + 1, n + k), instrs)
                     \o ConvertBuildinLinks(From(s, n + k + 1), instrs)
        ELSE <<Head(s)>> \o ConvertBuildinLinks(Tail(s), instrs)

\* the first position >= from at which s holds the character c; 0 if none
FirstAt(s, from, c) ==
    LET hits == {k \in from..Len(s) : s[k] = c}
    IN  IF hits = {} THEN 0 ELSE CHOOSE k \in hits : \A m \in hits : k <= m

NoImage == [ok |-> FALSE, alt |-> <<>>, target |-> <<>>, stop |-> 0]

\* image_pattern = r'!\[([^\]]*)\]\(([^)]+)\)' matched at position i of s
ImageAt(s, i) ==
    IF ~(i + 1 <= Len(s) /\ s[i] = "!" /\ s[i + 1] = "[") THEN NoImage
    ELSE LET close == FirstAt(s, i + 2, "]")
         IN  IF close = 0 \/ close + 1 > Len(s) THEN NoImage
             ELSE IF s[close + 1] # "(" THEN NoImage
             ELSE LET paren == FirstAt(s, close + 2, ")")
                  IN  IF paren <= close + 2 THEN NoImage
                      ELSE [ok |-> TRUE,
                            alt |-> SubSeq(s, i + 2, close - 1),
                            target |-> SubSeq(s, close + 2, paren - 1),
                            stop |-> paren]

\* image_url.startswith('http')
StartsWithHttp(image_url) == StartsWith(image_url, <<"h", "t", "t", "p">>)

\* f'![{match.group(1)}](/image/{instruction_id}/{image_url})'
LocalImage(alt, instruction_id, image_url) ==
    <<"!", "[">> \o alt \o <<"]", "(", "/", "i", "m", "a", "g", "e", "/">>
        \o instruction_id \o <<"/">> \o image_url \o <<")">>

\* replace_image(match); whole is match.group(0)
ReplaceImage(whole, alt, image_url, instruction_id) ==
    IF StartsWithHttp(image_url) THEN whole
    ELSE LocalImage(alt, instruction_id, image_url)

\* re.sub(image_pattern, replace_image, content) from position i on
RECURSIVE RewriteImagesFrom(_, _, _)
RewriteImagesFrom(s, i, instruction_id) ==
    IF i > Len(s) THEN <<>>
    ELSE LET m == ImageAt(s, i)
         IN  IF m.ok
             THEN ReplaceImage(SubSeq(s, i, m.stop), m.alt, m.target,
                               instruction_id)
                      \o RewriteImagesFrom(s, m.stop + 1, instruction_id)
             ELSE <<s[i]>> \o RewriteImagesFrom(s, i + 1, instruction_id)

RewriteImages(s, instruction_id) == RewriteImagesFrom(s, 1, instruction_id)

\* markdown_to_html(content, instruction_id, instructions_dict): the markdown
\* handed to markdown.markdown, whose HTML is not modelled further
MarkdownToHtml(s, instruction_id, instrs) ==
    [markdown |-> RewriteImages(ConvertBuildinLinks(s, instrs), instruction_id)]
-----------------------------------------------------------------------------
(* Route handlers.  A request arrives when no other is being answered; the   *)
(* handler then makes its system calls one at a time.  `faults` names the    *)
(* calls of the handler that raise: "none"; "body", the render_template,     *)
(* jsonify or send_from_directory call of the handler's body; "all", that    *)
(* call and the render_template or jsonify call of the except branch         *)

Faults == {"none", "body", "all"}

\* str(e) of the exception a raising render_template, jsonify or
\* send_from_directory call raises
ErrorText == "error"

\* a response the handler returns
OkResponse(route, args, status, body) ==
    [route |-> route, args |-> args, status |-> status, raised |-> FALSE,
     body |-> body]

\* the response of the handler's `except Exception` branch
ErrorResponse(route, args) ==
    [route |-> route, args |-> args, status |-> 500, raised |-> FALSE,
     body |-> [error |-> ErrorText]]

\* the answer of serve_image's `except Exception` branch, a plain string
ImageFailed(args) ==
    [route |-> "serve_image", args |-> args, status |-> 500, raised |-> FALSE,
     body |-> [file |-> <<>>]]

\* no response of the handler: the exception leaves the handler
Unhandled(route, args) ==
    [route |-> route, args |-> args, status |-> 0, raised |-> TRUE,
     body |-> [error |-> ErrorText]]

\* a request without parameters
NoArgs == [none |-> TRUE]

\* no request is being answered
NoResponse ==
    [route |-> "none", args |-> NoArgs, status |-> 0, raised |-> FALSE,
     body |-> [error |-> ErrorText]]

NoRequest == [route |-> "none", args |-> NoArgs, faults |-> "none"]

\* no extract_instruction_info / scan_instructions call is in progress
NoInfo == [id |-> <<>>]
NoScan == [pending |-> <<>>, acc |-> <<>>, files |-> <<>>, pass |-> 1]

\* no search_in_instructions call has returned yet
NoResults == [type |-> "none", mode |-> "none", docs |-> <<>>]

Pure == UNCHANGED <<query, results, content, rewritten>>

\* a handler writes nothing to the data root
Quiet == UNCHANGED <<fs, rootMode, rootOrder, touched, query, results, content,
                     rewritten>>

\* the response of a handler whose body ends in a render_template, jsonify or
\* send_from_directory call that returns ok unless it raises; health_check has
\* no try/except, and serve_image's except branch returns a plain string
Answer(ok) ==
    IF req.faults = "none" THEN ok
    ELSE IF req.route = "health" THEN Unhandled(req.route, req.args)
    ELSE IF req.route = "serve_image" THEN ImageFailed(req.args)
    ELSE IF req.faults = "body" THEN ErrorResponse(req.route, req.args)
    ELSE Unhandled(req.route, req.args)

-----------------------------------------------------------------------------
(* scan_instructions and extract_instruction_info, one system call a step *)

\* scan_instructions up to its os.listdir(data_folder), lines 79-87; when the
\* listing raises, the scan returns [] (lines 99-101), as it does after
\* listing nothing
ListRoot(pass) ==
    [pending |-> IF rootMode.r THEN ListDir(fs, rootOrder) ELSE <<>>,
     acc |-> <<>>, files |-> <<>>, pass |-> pass]

\* a request arrives and the handler runs up to the first system call of its
\* scan_instructions()
Arrive(route, args, faults) ==
    /\ pc = "idle"
    /\ req' = [route |-> route, args |-> args, faults |-> faults]
    /\ scan' = ListRoot(1)
    /\ pc' = "isdir"
    /\ UNCHANGED <<info, instructions, resp>>
    /\ Quiet

\* the folder the loop of scan_instructions is at
CurrentFolder == Head(scan.pending)

\* extract_instruction_info returned inf: lines 91-92 and the next iteration
Collect(inf) ==
    /\ info' = NoInfo
    /\ scan' = [scan EXCEPT !.pending = Tail(@),
                            !.acc = IF inf.content # <<>> THEN Append(@, inf)
                                    ELSE @,
                            !.files = <<>>]
    /\ pc' = "isdir"

\* os.path.isdir(folder_path), line 89
IsDirCall ==
    /\ pc = "isdir"
    /\ scan.pending # <<>>
    /\ IF StatError(CurrentFolder) = "" /\ IsDir(fs[CurrentFolder])
       THEN pc' = "exists40" /\ UNCHANGED <<scan, info>>
       ELSE scan' = [scan EXCEPT !.pending = Tail(@)] /\ UNCHANGED <<pc, info>>
    /\ UNCHANGED <<req, instructions, resp>>
    /\ Quiet

\* os.path.exists(folder_path) of line 40
Exists40 ==
    /\ pc = "exists40"
    /\ IF StatError(CurrentFolder) # ""
       THEN info' = StartInfo(CurrentFolder, 0) /\ pc' = "exists44"
       ELSE pc' = "getmtime" /\ UNCHANGED info
    /\ UNCHANGED <<req, scan, instructions, resp>>
    /\ Quiet

\* os.path.getmtime(folder_path) of line 40, which raises when the folder has
\* gone, or can no longer be reached, since os.path.exists
GetMTime ==
    /\ pc = "getmtime"
    /\ IF StatError(CurrentFolder) # ""
       THEN Collect(ErrorInfo(CurrentFolder, StatError(CurrentFolder)))
       ELSE /\ info' = StartInfo(CurrentFolder, MTime(fs[CurrentFolder]))
            /\ pc' = "exists44"
            /\ UNCHANGED scan
    /\ UNCHANGED <<req, instructions, resp>>
    /\ Quiet

\* os.path.exists(folder_path) of line 44
Exists44 ==
    /\ pc = "exists44"
    /\ IF StatError(CurrentFolder) # ""
       THEN Collect(info)
       ELSE pc' = "listdir49" /\ UNCHANGED <<scan, info>>
    /\ UNCHANGED <<req, instructions, resp>>
    /\ Quiet

\* os.listdir(folder_path) of line 49; with nothing listed the loop is over
\* at once and line 66 returns info
ListFolder ==
    /\ pc = "listdir49"
    /\ IF ~CanList(CurrentFolder)
       THEN Collect(ErrorInfo(CurrentFolder, ListError(CurrentFolder)))
       ELSE IF fs[CurrentFolder].files = <<>>
       THEN Collect(info)
       ELSE /\ scan' = [scan EXCEPT !.files = FileNames(fs[CurrentFolder])]
            /\ pc' = "file"
            /\ UNCHANGED info
    /\ UNCHANGED <<req, instructions, resp>>
    /\ Quiet

\* one iteration of the loop of lines 49-64, with its open() and read();
\* after the last one line 66 returns info
ReadNext ==
    LET read == ReadFile(info, CurrentFolder, Head(scan.files),
                         Opened(CurrentFolder, Head(scan.files)))
    IN  /\ pc = "file"
        /\ IF Len(scan.files) = 1
           THEN Collect(read)
           ELSE /\ info' = read
                /\ scan' = [scan EXCEPT !.files = Tail(@)]
                /\ UNCHANGED pc
        /\ UNCHANGED <<req, instructions, resp>>
        /\ Quiet

\* the loop of scan_instructions is over
ScanDone == pc = "isdir" /\ scan.pending = <<>>

\* what scan_instructions returns then: lines 95-98
Scanned == SortedBy(scan.acc, "modified_desc")

-----------------------------------------------------------------------------
(* The handlers *)

\* search_type_display of index(): the label of the search type
SearchTypeDisplay(search_type) ==
    CASE search_type = "title" -> "by title"
      [] search_type = "content" -> "by content"
      [] search_type = "advanced" -> "advanced"
      [] OTHER -> "by title"

\* mutant of IndexSort: date_old sorts newest first, like date_new
IndexSortNewest(instrs, sort) ==
    IF sort = "date_new" THEN SortedBy(instrs, "modified_desc")
    ELSE IF sort = "date_old" THEN SortedBy(instrs, "modified_desc")
    ELSE IF sort = "title" THEN SortedBy(instrs, "title")
    ELSE instrs

\* the sort of index() after a search
IndexSort(instrs, sort) ==
    IF sort = "date_new" THEN SortedBy(instrs, "modified_desc")
    ELSE IF sort = "date_old" THEN SortedBy(instrs, "modified_asc")
    ELSE IF sort = "title" THEN SortedBy(instrs, "title")
    ELSE instrs

\* the list index() hands to the page
IndexInstructions(scanned, q, search_type, search_mode, sort) ==
    IF q # <<>>
    THEN IndexSort(SearchInInstructions(scanned, q, search_type, search_mode),
                   sort)
    ELSE scanned

\* @app.route('/'): lines 241-246, up to the listing of the data root
Index(q, search_type, search_mode, sort, faults) ==
    Arrive("index",
           [q |-> q, search_type |-> search_type, search_mode |-> search_mode,
            sort |-> sort],
           faults)

\* index(): scan_instructions() of line 246 returned; lines 246-269 and the
\* second scan_instructions(), of line 277, up to its listing of the data root
IndexSearch ==
    /\ ScanDone
    /\ req.route = "index"
    /\ scan.pass = 1
    /\ instructions' = IndexInstructions(Scanned, req.args.q,
                           req.args.search_type, req.args.search_mode,
                           req.args.sort)
    /\ scan' = ListRoot(2)
    /\ UNCHANGED <<pc, req, info, resp>>
    /\ Quiet

\* index(): scan_instructions() of line 277 returned; lines 272-280
IndexRender ==
    /\ ScanDone
    /\ req.route = "index"
    /\ scan.pass = 2
    /\ resp' = Answer(OkResponse("index", req.args, 200,
                          [template |-> "index.html",
                           search_type_display |->
                               SearchTypeDisplay(req.args.search_type),
                           total_instructions |-> Len(Scanned)]))
    /\ pc' = "done"
    /\ scan' = NoScan
    /\ info' = NoInfo
    /\ UNCHANGED <<req, instructions>>
    /\ Quiet

\* related_instructions of show_instruction()
Related(instrs, instruction) ==
    SelectSeq(instrs,
              LAMBDA other :
                  /\ other.id # instruction.id
                  /\ \/ Contains(instruction.content, other.id)
                     \/ Contains(instruction.content, other.title))

\* @app.route('/instruction/<instruction_id>'), up to the listing of the data
\* root
ShowInstruction(instruction_id, faults) ==
    Arrive("show_instruction", [instruction_id |-> instruction_id], faults)

\* show_instruction(): scan_instructions() returned; lines 286-321
ShowRender ==
    LET scanned == Scanned
        instruction_id == req.args.instruction_id
        known == {i \in 1..Len(scanned) : scanned[i].id = instruction_id}
    IN  /\ ScanDone
        /\ req.route = "show_instruction"
        /\ instructions' = scanned
        /\ resp' =
              Answer(IF known = {}
                     THEN OkResponse("show_instruction", req.args, 404,
                              [template |-> "404.html"])
                     ELSE LET instruction == scanned[CHOOSE i \in known : TRUE]
                          IN  OkResponse("show_instruction", req.args, 200,
                                  [template |-> "instruction.html",
                                   title |-> instruction.title,
                                   content |->
                                       MarkdownToHtml(instruction.content,
                                           instruction_id, scanned),
                                   related |-> Related(scanned, instruction),
                                   total_instructions |-> Len(scanned),
                                   modified |-> instruction.modified]))
        /\ pc' = "done"
        /\ scan' = NoScan
        /\ info' = NoInfo
        /\ UNCHANGED req
        /\ Quiet

\* os.path.exists(os.path.join(folder_path, filename)); filename is
\* <<stem, extension>>
HasFile(n, filename) ==
    /\ StatError(n) = ""
    /\ IsDir(fs[n])
    /\ fs[n].mode.x
    /\ FileAt(fs[n], filename) # {}

\* the "not found" answer of serve_image, a plain string
ImageNotFound(args) == OkResponse("serve_image", args, 404, [file |-> <<>>])

\* @app.route('/image/<instruction_id>/<filename>'): lines 327-330, with the
\* os.path.exists(folder_path) of line 328
ServeImage(instruction_id, filename, faults) ==
    LET args == [instruction_id |-> instruction_id, filename |-> filename]
    IN  /\ pc = "idle"
        /\ req' = [route |-> "serve_image", args |-> args, faults |-> faults]
        /\ IF StatError(instruction_id) # ""
           THEN resp' = ImageNotFound(args) /\ pc' = "done"
           ELSE pc' = "exists333" /\ UNCHANGED resp
        /\ UNCHANGED <<scan, info, instructions>>
        /\ Quiet

\* serve_image(): lines 332-335, with the os.path.exists(image_path)
ServeImageExists ==
    /\ pc = "exists333"
    /\ IF HasFile(req.args.instruction_id, req.args.filename)
       THEN pc' = "send" /\ UNCHANGED resp
       ELSE resp' = ImageNotFound(req.args) /\ pc' = "done"
    /\ UNCHANGED <<req, scan, info, instructions>>
    /\ Quiet

\* serve_image(): send_from_directory of line 337, which opens the file and
\* raises when the file has gone since line 333 or cannot be read, and the
\* except branch
ServeImageSend ==
    /\ pc = "send"
    /\ resp' = IF OpenError(req.args.instruction_id, req.args.filename) = ""
               THEN Answer(OkResponse("serve_image", req.args, 200,
                               [file |-> req.args.filename]))
               ELSE ImageFailed(req.args)
    /\ pc' = "done"
    /\ UNCHANGED <<req, scan, info, instructions>>
    /\ Quiet

\* characters of context api_search keeps on each side of a match
ApiContextRadius == 50

\* results api_search returns at most
ApiSearchLimit == 10

\* shortest query api_search searches for
ApiMinQuery == 2

\* whether api_search matches instr
ApiMatch(instr, query_lower, search_type) ==
    IF search_type = "title" THEN Contains(Lower(instr.title), query_lower)
    ELSE IF search_type = "content"
    THEN Contains(Lower(instr.content), query_lower)
    ELSE FALSE

\* the preview of one api_search result
ApiPreview(instr, q, search_type) ==
    IF search_type = "title" THEN [found_in_title |-> instr.title]
    ELSE LET pos == Find(Lower(instr.content), Lower(q)) - 1
             start == IF pos - ApiContextRadius > 0
                      THEN pos - ApiContextRadius ELSE 0
             stop == IF pos + Len(q) + ApiContextRadius < Len(instr.content)
                     THEN pos + Len(q) + ApiContextRadius
                     ELSE Len(instr.content)
         IN  [context |-> SubSeq(instr.content, start + 1, stop)]

\* the loop of api_search and the cut results[:10]
ApiResults(scanned, q, search_type) ==
    LET hits == SelectSeq(scanned,
                          LAMBDA instr : ApiMatch(instr, Lower(q), search_type))
        all == [i \in 1..Len(hits) |->
                   [id |-> hits[i].id, title |-> hits[i].title,
                    preview |-> ApiPreview(hits[i], q, search_type)]]
    IN  SubSeq(all, 1, IF Len(all) < ApiSearchLimit THEN Len(all)
                       ELSE ApiSearchLimit)

\* @app.route('/api/search'): lines 346-352; a query shorter than two
\* characters is answered at once, any other up to the listing of the data
\* root
ApiSearch(q, search_type, faults) ==
    LET args == [q |-> q, type |-> search_type]
    IN  IF Len(q) < ApiMinQuery
        THEN /\ pc = "idle"
             /\ req' = [route |-> "api_search", args |-> args,
                        faults |-> faults]
             /\ resp' = IF faults = "none"
                        THEN OkResponse("api_search", args, 200,
                                 [results |-> <<>>])
                        ELSE IF faults = "body"
                        THEN ErrorResponse("api_search", args)
                        ELSE Unhandled("api_search", args)
             /\ pc' = "done"
             /\ UNCHANGED <<scan, info, instructions>>
             /\ Quiet
        ELSE Arrive("api_search", args, faults)

\* api_search(): scan_instructions() returned; lines 352-390
ApiSearchRespond ==
    /\ ScanDone
    /\ req.route = "api_search"
    /\ instructions' = Scanned
    /\ resp' = Answer(OkResponse("api_search", req.args, 200,
                          [results |-> ApiResults(Scanned, req.args.q,
                                                  req.args.type)]))
    /\ pc' = "done"
    /\ scan' = NoScan
    /\ info' = NoInfo
    /\ UNCHANGED req
    /\ Quiet

\* the fields api_instructions puts into its JSON
ApiEntry(instr) ==
    [id |-> instr.id, title |-> instr.title, image_count |-> Len(instr.images),
     modified |-> instr.modified]

\* @app.route('/api/instructions'), up to the listing of the data root
ApiInstructions(faults) == Arrive("api_instructions", NoArgs, faults)

\* api_instructions(): scan_instructions() returned; lines 396-410
ApiInstructionsRespond ==
    /\ ScanDone
    /\ req.route = "api_instructions"
    /\ instructions' = Scanned
    /\ resp' = Answer(OkResponse("api_instructions", NoArgs, 200,
                          [count |-> Len(Scanned),
                           instructions |-> [i \in 1..Len(Scanned) |->
                                                ApiEntry(Scanned[i])]]))
    /\ pc' = "done"
    /\ scan' = NoScan
    /\ info' = NoInfo
    /\ UNCHANGED req
    /\ Quiet

\* @app.route('/health'), up to the listing of the data root
HealthCheck(faults) == Arrive("health", NoArgs, faults)

\* health_check(): scan_instructions() returned; lines 415-420.  The list is
\* no local of the handler; `instructions` keeps it for the properties
HealthRespond ==
    /\ ScanDone
    /\ req.route = "health"
    /\ instructions' = Scanned
    /\ resp' = Answer(OkResponse("health", NoArgs, 200,
                          [status |-> "healthy",
                           instruction_count |-> Len(Scanned)]))
    /\ pc' = "done"
    /\ scan' = NoScan
    /\ info' = NoInfo
    /\ UNCHANGED req
    /\ Quiet

\* the response has been sent; the handler's locals are gone
Finish ==
    /\ pc = "done"
    /\ pc' = "idle"
    /\ req' = NoRequest
    /\ resp' = NoResponse
    /\ instructions' = <<>>
    /\ touched' = <<>>
    /\ UNCHANGED <<fs, rootMode, rootOrder, scan, info>>
    /\ Pure

\* the system calls of scan_instructions and extract_instruction_info
ScanStep ==
    \/ IsDirCall
    \/ Exists40
    \/ GetMTime
    \/ Exists44
    \/ ListFolder
    \/ ReadNext

-----------------------------------------------------------------------------
(* Another process changes the data root, before or during a request.  A     *)
(* change after the response has been produced is a change before the next   *)
(* request                                                                   *)

\* the orders os.listdir can enumerate the entries of the data root in
Orders == {<<<<"a">>, <<"B">>>>, <<<<"B">>, <<"a">>>>}

\* the data root itself, as an element of `touched`
Root == <<>>

\* markdown texts written to the data root in the scan specification
MdTexts == {<<>>, <<"#", " ", "a">>, <<"b">>}

NewFiles(stem) ==
    {MdFile(stem, TRUE, t) : t \in MdTexts} \cup {MdFile(stem, FALSE, <<"b">>)}

RECURSIVE SumFiles(_, _)
SumFiles(fsys, S) ==
    IF S = {} THEN 0
    ELSE LET n == CHOOSE x \in S : TRUE
         IN  (IF IsDir(fsys[n]) THEN Len(fsys[n].files) ELSE 0)
                 + SumFiles(fsys, S \ {n})

TotalFiles(fsys) == SumFiles(fsys, Names)

\* the entry n changes while the handler, if any, is at a system call
Change(n) ==
    /\ pc # "done"
    /\ Len(touched) < MaxChanges
    /\ touched' = IF pc = "idle" THEN <<>> ELSE Append(touched, n)
    /\ UNCHANGED <<pc, req, scan, info, instructions, resp>>
    /\ Pure

\* os.listdir promises no order: a new entry of the data root may be
\* enumerated before or after the entries already there
Mkdir(n, t) ==
    /\ fs[n] = Absent
    /\ fs' = [fs EXCEPT ![n] = Folder(FullMode, t, <<>>)]
    /\ rootOrder' \in Orders
    /\ UNCHANGED rootMode
    /\ Change(n)

CreateRootFile(n, t) ==
    /\ fs[n] = Absent
    /\ fs' = [fs EXCEPT ![n] = PlainFile(t)]
    /\ rootOrder' \in Orders
    /\ UNCHANGED rootMode
    /\ Change(n)

\* s with x put in after its first i elements
InsertAt(s, i, x) == SubSeq(s, 1, i) \o <<x>> \o SubSeq(s, i + 1, Len(s))

\* a new file is written into the folder n; os.listdir may enumerate it at
\* any place among the files already there
WriteFile(n, t) ==
    /\ IsDir(fs[n])
    /\ TotalFiles(fs) < MaxFiles
    /\ \E file \in NewFiles(Len(fs[n].files) + 1), i \in 0..Len(fs[n].files) :
          fs' = [fs EXCEPT ![n] = Folder(@.mode, t, InsertAt(@.files, i, file))]
    /\ UNCHANGED <<rootMode, rootOrder>>
    /\ Change(n)

Remove(n) ==
    /\ fs[n] # Absent
    /\ fs' = [fs EXCEPT ![n] = Absent]
    /\ UNCHANGED <<rootMode, rootOrder>>
    /\ Change(n)

\* chmod of a document folder
Chmod(n, mode) ==
    /\ IsDir(fs[n])
    /\ fs[n].mode # mode
    /\ fs' = [fs EXCEPT ![n] = Folder(mode, @.modified, @.files)]
    /\ UNCHANGED <<rootMode, rootOrder>>
    /\ Change(n)

\* chmod of the data root
ChmodRoot(mode) ==
    /\ rootMode # mode
    /\ rootMode' = mode
    /\ UNCHANGED <<fs, rootOrder>>
    /\ Change(Root)

\* no request is in progress
Resting ==
    /\ pc = "idle"
    /\ req = NoRequest
    /\ scan = NoScan
    /\ info = NoInfo
    /\ instructions = <<>>
    /\ resp = NoResponse
    /\ touched = <<>>

Init ==
    /\ fs = [n \in Names |-> Absent]
    /\ rootMode = FullMode
    /\ rootOrder \in Orders
    /\ Resting
    /\ query = None
    /\ results = NoResults
    /\ content = None
    /\ rewritten = None

Next ==
    \/ \E n \in Names, t \in 1..MaxTime : Mkdir(n, t)
    \/ \E n \in Names, t \in 1..MaxTime : CreateRootFile(n, t)
    \/ \E n \in Names, t \in 1..MaxTime : WriteFile(n, t)
    \/ \E n \in Names : Remove(n)
    \/ \E n \in Names, mode \in Modes : Chmod(n, mode)
    \/ \E mode \in Modes : ChmodRoot(mode)
    \/ ApiInstructions("none")
    \/ ScanStep
    \/ ApiInstructionsRespond
    \/ Finish

Spec == Init /\ [][Next]_vars

-----------------------------------------------------------------------------
(* A scan of a data root of one folder that holds one markdown file, for     *)
(* every markdown text up to MaxLen characters (specification SpecTitle)     *)

TitleAlphabet == {"#", " ", "\n", "a"}

\* the folder the title specification extracts
TitleFolder == <<"B">>

InitTitle ==
    /\ \E text \in Strings(TitleAlphabet, MaxLen) :
          fs = [n \in Names |->
                   IF n = TitleFolder
                   THEN Folder(FullMode, 1, <<MdFile(1, TRUE, text)>>)
                   ELSE Absent]
    /\ rootMode = FullMode
    /\ rootOrder \in Orders
    /\ Resting
    /\ query = None
    /\ results = NoResults
    /\ content = None
    /\ rewritten = None

NextTitle ==
    \/ HealthCheck("none")
    \/ IsDirCall
    \/ Exists40
    \/ GetMTime
    \/ Exists44
    \/ ListFolder
    \/ ReadNext
    \/ HealthRespond
    \/ Finish

SpecTitle == InitTitle /\ [][NextTitle]_vars

-----------------------------------------------------------------------------
(* search_in_instructions on bounded document lists and queries             *)
(* (specification SpecSearch)                                               *)

\* the characters of titles and contents, and those of queries: each holds a
\* capital and a small letter, so that a query and a field differ in case
\* either way
FieldAlphabet == {"A", "b"}
QueryAlphabet == {"a", "B", " "}

SearchDoc(id, title, text) ==
    [id |-> id, title |-> title, content |-> text, images |-> <<>>, modified |-> 1]

SearchDocs(id) ==
    {SearchDoc(id, t, c) : t \in Strings(FieldAlphabet, MaxField),
                           c \in Strings(FieldAlphabet, MaxField)}

\* a second document of the list: its words are split across title and content
SplitDoc == SearchDoc(<<"B">>, <<"A">>, <<"b">>)

SearchTypes == {"title", "content", "advanced"}
SearchModes == {"any", "all", "exact"}

InitSearch ==
    /\ instructions \in {<<>>} \cup {<<d>> : d \in SearchDocs(<<"a">>)}
                          \cup {<<d, SplitDoc>> : d \in SearchDocs(<<"a">>)}
    /\ query \in Strings(QueryAlphabet, MaxQuery)
    /\ results = NoResults
    /\ fs = [n \in Names |-> Absent]
    /\ rootMode = FullMode
    /\ rootOrder \in {<<<<"a">>, <<"B">>>>}
    /\ pc = "idle"
    /\ req = NoRequest
    /\ scan = NoScan
    /\ info = NoInfo
    /\ resp = NoResponse
    /\ touched = <<>>
    /\ content = None
    /\ rewritten = None

\* search_in_instructions(instructions, query, search_type, search_mode) is
\* called: `results` is the list it returns, and `instructions` the caller's
\* list after the call
Search(search_type, search_mode) ==
    /\ results = NoResults
    /\ results' = [type |-> search_type, mode |-> search_mode,
                   docs |-> SearchInInstructions(instructions, query,
                                                 search_type, search_mode)]
    /\ instructions' = SearchedList(instructions, query, search_type,
                                    search_mode)
    /\ UNCHANGED <<fs, rootMode, rootOrder, pc, req, scan, info, resp, touched,
                   query, content, rewritten>>

NextSearch ==
    \E search_type \in SearchTypes, search_mode \in SearchModes :
        Search(search_type, search_mode)

SpecSearch == InitSearch /\ [][NextSearch]_vars

-----------------------------------------------------------------------------
(* The image pass of markdown_to_html on bounded markdown texts             *)
(* (specification SpecImage)                                                *)

\* the pieces the texts of the image specification are put together from
ImageTokens ==
    {<<"!", "[">>, <<"]", "(">>, <<")">>, <<"h", "t", "t", "p">>, <<"p">>, <<":">>}

\* all concatenations of at most n tokens
RECURSIVE TokenTexts(_)
TokenTexts(n) ==
    IF n = 0 THEN {<<>>}
    ELSE LET shorter == TokenTexts(n - 1)
         IN  shorter \cup {s \o t : s \in shorter, t \in ImageTokens}

InitImage ==
    /\ \E text \in TokenTexts(MaxTokens), id \in Names :
          content = [instruction_id |-> id, text |-> text]
    /\ rewritten = [done |-> FALSE, text |-> <<>>]
    /\ fs = [n \in Names |-> Absent]
    /\ rootMode = FullMode
    /\ rootOrder \in {<<<<"a">>, <<"B">>>>}
    /\ Resting
    /\ query = None
    /\ results = NoResults

\* lines 129-139 of markdown_to_html
ImagePass ==
    /\ ~rewritten.done
    /\ rewritten' = [done |-> TRUE,
                     text |-> RewriteImages(content.text, content.instruction_id)]
    /\ UNCHANGED <<fs, rootMode, rootOrder, pc, req, scan, info, instructions,
                   resp, touched, query, results, content>>

NextImage == ImagePass

SpecImage == InitImage /\ [][NextImage]_vars

-----------------------------------------------------------------------------
(* The six routes over a data root from which folders are removed            *)
(* (specification SpecRoutes)                                                *)

\* markdown texts of the documents of the routes specification
RouteTexts ==
    {<<"#", " ", "a", "b">>, <<"b">>,
     <<"!", "[", "]", "(", "p", ")", "a">>, BuildinPrefix \o <<"a">>}

\* what the entry "a" of the data root is when the routes specification starts
RouteFolders ==
    {Absent, PlainFile(1)}
        \cup {Folder(FullMode, t, files) :
                 t \in 1..MaxTime,
                 files \in {<<MdFile(1, TRUE, <<"b">>), ImageFile(2, "PNG")>>,
                            <<MdFile(1, FALSE, <<"b">>)>>}
                              \cup {<<MdFile(1, TRUE, text)>> : text \in RouteTexts}}

\* what the entry "B" is
OtherFolders ==
    {Absent} \cup {Folder(FullMode, t, <<MdFile(1, TRUE, <<"#", " ", "B">>)>>) :
                      t \in 1..MaxTime}

\* the queries of `/` requests, and those of /api/search requests
RouteQueries == {<<>>, <<" ">>, <<"B">>}
ApiQueries == {<<"b">>, <<"A", "b">>}
RouteSorts == {"relevance", "date_new", "date_old", "title"}

\* search_type and search_mode of a `/` request
RouteSearches == {<<"title", "any">>, <<"content", "any">>, <<"advanced", "all">>}
RouteIds == Names \cup {<<"b">>}
RouteFilenames == {<<1, "md">>, <<2, "PNG">>, <<2, "png">>}

InitRoutes ==
    /\ fs \in {f \in [Names -> RouteFolders \cup OtherFolders] :
                  f[<<"a">>] \in RouteFolders /\ f[<<"B">>] \in OtherFolders}
    /\ rootMode = FullMode
    /\ rootOrder \in Orders
    /\ Resting
    /\ query = None
    /\ results = NoResults
    /\ content = None
    /\ rewritten = None

NextRoutes ==
    \/ \E q \in RouteQueries, search \in RouteSearches, sort \in RouteSorts,
          faults \in Faults :
          Index(q, search[1], search[2], sort, faults)
    \/ \E id \in RouteIds, faults \in Faults : ShowInstruction(id, faults)
    \/ \E id \in Names, filename \in RouteFilenames, faults \in Faults :
          ServeImage(id, filename, faults)
    \/ \E q \in ApiQueries, search_type \in SearchTypes, faults \in Faults :
          ApiSearch(q, search_type, faults)
    \/ \E faults \in Faults : ApiInstructions(faults)
    \/ \E faults \in Faults : HealthCheck(faults)
    \/ ScanStep
    \/ IndexSearch
    \/ IndexRender
    \/ ShowRender
    \/ ServeImageExists
    \/ ServeImageSend
    \/ ApiSearchRespond
    \/ ApiInstructionsRespond
    \/ HealthRespond
    \/ Finish
    \/ \E n \in Names : Remove(n)

SpecRoutes == InitRoutes /\ [][NextRoutes]_vars

-----------------------------------------------------------------------------
(* Properties of the scan (specification Spec) *)

\* a request has been answered
Requested == pc = "done"

\* the entry n and the data root are as they were when the request arrived
Steady(n) == \A i \in 1..Len(touched) : touched[i] \notin {n, Root}

Listed(n) == \E i \in 1..Len(instructions) : instructions[i].id = n
Doc(n) == instructions[CHOOSE i \in 1..Len(instructions) : instructions[i].id = n]

MdFiles(n) == SelectSeq(fs[n].files, LAMBDA f : f.ext = "md")
HasMd(n) == IsDir(fs[n]) /\ MdFiles(n) # <<>>
LastMd(n) == MdFiles(n)[Len(MdFiles(n))]

\* the data root and the folder can be listed
Listable(n) == rootMode.r /\ CanList(n)

\* what open() and read() give for the last markdown file of the folder
LastOpened(n) == Opened(n, <<LastMd(n).stem, "md">>)

\* the last markdown file of the folder can be read
LastReadable(n) == LastOpened(n).error = ""

\* the content line 62 stores for the last markdown file when reading it fails
LastReadError(n) ==
    ReadErrorContent(LastOpened(n).error, FilePath(n, <<LastMd(n).stem, "md">>))

\* C1 as stated: a subdirectory whose markdown file is empty or cannot be read
\* has no Document in the list scan_instructions returns (for a subdirectory
\* nothing changes during the scan).
C1_AsStated ==
    Requested =>
        \A n \in Names :
            (Steady(n) /\ HasMd(n) /\ Len(MdFiles(n)) = 1
                /\ (~LastReadable(n) \/ LastMd(n).text = <<>>))
            => ~Listed(n)

\* C1 amended: a subdirectory whose markdown file (the last one enumerated) is
\* empty has no Document in the list scan_instructions returns; a subdirectory
\* whose markdown file cannot be read is in the list, with the read-error
\* message as its content, whenever the subdirectory and the data root can be
\* listed (for a subdirectory nothing changes during the scan).
C1_EmptyExcludedUnreadableListed ==
    Requested =>
        \A n \in Names :
            (Steady(n) /\ HasMd(n)) =>
                /\ (LastReadable(n) /\ LastMd(n).text = <<>>) => ~Listed(n)
                /\ (~LastReadable(n) /\ Listable(n)) =>
                       (Listed(n) /\ Doc(n).content = LastReadError(n))

C1_Witness ==
    /\ Requested
    /\ \E n \in Names :
          Steady(n) /\ HasMd(n) /\ Listable(n) /\ LastReadable(n)
              /\ LastMd(n).text = <<>> /\ ~Listed(n)
    /\ \E n \in Names :
          Steady(n) /\ HasMd(n) /\ Listable(n) /\ ~LastMd(n).readable
              /\ Listed(n)

\* C2: when listing one subdirectory raises, scan_instructions still returns
\* the Document of every other readable subdirectory, and its result holds a
\* Document for the failing folder whose title is the error message (with
\* nothing changing during the scan).
C2_FailingFolderReported ==
    (Requested /\ rootMode = FullMode /\ touched = <<>>) =>
        \A n \in Names :
            (IsDir(fs[n]) /\ ~CanList(n)) =>
                /\ Listed(n)
                /\ Doc(n).title = ErrorTitle(ListError(n), FolderPath(n))
                /\ \A m \in Names \ {n} :
                      (HasMd(m) /\ CanList(m) /\ LastReadable(m)
                          /\ LastMd(m).text # <<>>) => Listed(m)

\* C8: every request's document set is rebuilt from the filesystem as it is
\* during that request, and nothing is carried over from earlier requests: a
\* folder that has been in the data root unchanged since before the request
\* arrived is listed exactly when it is a listable directory whose last
\* markdown file yields content, so a folder added before the request is
\* listed and a folder removed before it is not; no folder is listed twice.
C8_ListingIsCurrent ==
    Requested =>
        /\ \A n \in Names :
              Steady(n) =>
                  (Listed(n) <=>
                      (Listable(n) /\ HasMd(n)
                          /\ (~LastReadable(n) \/ LastMd(n).text # <<>>)))
        /\ \A i, j \in 1..Len(instructions) :
              instructions[i].id = instructions[j].id => i = j

C8_Witness ==
    /\ Requested
        /\ \E n \in Names :
          Steady(n) /\ HasMd(n) /\ LastReadable(n) /\ LastMd(n).text # <<>>
              /\ Listed(n)
    /\ \E n \in Names : Steady(n) /\ fs[n] = Absent /\ ~Listed(n)

\* the title the claim C9 expects of a folder: the heading of its last
\* markdown file, or the folder's base name if that file has none
LastFileTitle(n) ==
    LET match == TitleSearch(LastMd(n).text)
    IN  IF match.found THEN match.group ELSE n

\* C9: with several markdown files in a folder, content and title of its
\* Document come from the last markdown file alone: the title is that file's
\* heading, or the folder's base name if that file has no heading (for a
\* folder nothing changes during the scan).
C9_LastFileDecides ==
    Requested =>
        \A n \in Names :
            (Steady(n) /\ HasMd(n) /\ Len(MdFiles(n)) >= 2 /\ LastReadable(n)
                /\ Listed(n))
            => /\ Doc(n).content = LastMd(n).text
               /\ Doc(n).title = LastFileTitle(n)

-----------------------------------------------------------------------------
(* Properties of the title extraction (specification SpecTitle) *)

\* the markdown text of the folder SpecTitle extracts
TitleText == fs[TitleFolder].files[1].text

\* the text following "# " on the first line of s that begins with "# "
RECURSIVE HeadingOf(_)
HeadingOf(s) ==
    LET line == LineRest(s)
    IN  IF StartsWith(line, <<"#", " ">>)
        THEN [found |-> TRUE, text |-> From(line, 3)]
        ELSE IF Len(line) < Len(s) THEN HeadingOf(From(s, Len(line) + 2))
        ELSE [found |-> FALSE, text |-> <<>>]

\* C3: the extracted title is the text following "# " on the first line that
\* begins with "# ", whatever other lines come before it; when no line begins
\* with "# ", the title is the folder's base name.  (Stated for heading lines
\* whose text is not empty and does not begin with a blank.)
C3_TitleIsFirstHeadingLine ==
    (Requested /\ Listed(TitleFolder)) =>
        LET heading == HeadingOf(TitleText)
        IN  /\ (heading.found /\ heading.text # <<>>
                   /\ ~IsSpace(heading.text[1])) =>
                   Doc(TitleFolder).title = heading.text
            /\ ~heading.found => Doc(TitleFolder).title = TitleFolder

-----------------------------------------------------------------------------
(* Properties of the search (specification SpecSearch) *)

\* the whitespace-separated words of a query
QueryWords(q) ==
    {SubSeq(q, i, j) : i \in 1..Len(q), j \in 1..Len(q)} \cap
    {w \in Strings(QueryAlphabet \ {" "}, Len(q)) :
        /\ w # <<>>
        /\ \E i \in 1..Len(q) :
              /\ i + Len(w) - 1 <= Len(q)
              /\ SubSeq(q, i, i + Len(w) - 1) = w
              /\ (i = 1 \/ q[i - 1] = " ")
              /\ (i + Len(w) - 1 = Len(q) \/ q[i + Len(w)] = " ")}

\* the letters of the search alphabets, each as its small and capital form
LetterForms == {{"a", "A"}, {"b", "B"}}

\* c and d are the same letter, whatever their case
SameLetter(c, d) == c = d \/ {c, d} \in LetterForms

\* w is a case-insensitive substring of text
InsensitiveSubstring(w, text) ==
    \E i \in 1..(Len(text) - Len(w) + 1) :
        \A k \in 1..Len(w) : SameLetter(text[i + k - 1], w[k])

EveryWordIn(q, text) == \A w \in QueryWords(q) : InsensitiveSubstring(w, text)

Returned(instr) == \E i \in 1..Len(results.docs) : results.docs[i].id = instr.id

AdvancedAll == results.type = "advanced" /\ results.mode = "all"

\* C5: in advanced search with mode `all` and a query of one or more words, a
\* document is in the result if and only if every query word is a
\* case-insensitive substring of its title, or every query word is one of its
\* content; words covered only by title and content together do not match.
C5_AllWordsInOneField ==
    (AdvancedAll /\ QueryWords(query) # {}) =>
        \A i \in 1..Len(instructions) :
            Returned(instructions[i]) <=>
                (EveryWordIn(query, instructions[i].title)
                    \/ EveryWordIn(query, instructions[i].content))

C5_Witness ==
    /\ AdvancedAll
    /\ Cardinality(QueryWords(query)) = 2
    /\ Len(instructions) = 2
    /\ Returned(instructions[1])
    /\ ~Returned(instructions[2])
    /\ \A w \in QueryWords(query) :
          InsensitiveSubstring(w, instructions[2].title)
              \/ InsensitiveSubstring(w, instructions[2].content)

\* the ids search_in_instructions returns in advanced mode `any`
AnyIds ==
    LET docs == SearchInInstructions(instructions, query, "advanced", "any")
    IN  {docs[i].id : i \in 1..Len(docs)}

AllWithinAny == \A i \in 1..Len(results.docs) : results.docs[i].id \in AnyIds

\* C10 as stated: for every non-empty query, one made only of whitespace
\* included, every document returned in mode `all` is returned in mode `any`.
C10_AsStated == (AdvancedAll /\ query # <<>>) => AllWithinAny

\* C10 amended: for every query holding at least one non-whitespace character,
\* every document returned in mode `all` is returned in mode `any`.
C10_AllWithinAnyForWords ==
    (AdvancedAll /\ \E i \in 1..Len(query) : query[i] # " ") => AllWithinAny

C10_Witness ==
    /\ AdvancedAll
    /\ \E i \in 1..Len(query) : query[i] # " "
    /\ \E i \in 1..Len(query) : query[i] = " "
    /\ results.docs # <<>>
    /\ AllWithinAny

-----------------------------------------------------------------------------
(* Properties of the image pass (specification SpecImage) *)

Letters == {"h", "t", "p"}

\* the target begins with a URL scheme: letters followed by a colon
BeginsWithScheme(target) ==
    \E k \in 1..(Len(target) - 1) :
        /\ \A i \in 1..k : target[i] \in Letters
        /\ target[k + 1] = ":"

\* the text C6 expects from position i on: an image reference is kept exactly
\* when its target begins with a URL scheme and is made local otherwise; all
\* other text is kept
RECURSIVE ExpectedImagesFrom(_, _, _)
ExpectedImagesFrom(s, i, instruction_id) ==
    IF i > Len(s) THEN <<>>
    ELSE LET m == ImageAt(s, i)
         IN  IF m.ok
             THEN (IF BeginsWithScheme(m.target) THEN SubSeq(s, i, m.stop)
                   ELSE LocalImage(m.alt, instruction_id, m.target))
                      \o ExpectedImagesFrom(s, m.stop + 1, instruction_id)
             ELSE <<s[i]>> \o ExpectedImagesFrom(s, i + 1, instruction_id)

\* C6: the image pass leaves `![alt](target)` unchanged exactly when target
\* begins with a URL scheme, rewrites it to `![alt](/image/<id>/<target>)`
\* otherwise, and alters no other text.
C6_KeptExactlyWhenAbsoluteUrl ==
    rewritten.done =>
        rewritten.text = ExpectedImagesFrom(content.text, 1, content.instruction_id)

-----------------------------------------------------------------------------
(* Properties of the routes (specification SpecRoutes) *)

IndexShown == resp.route = "index" /\ resp.status = 200

NewestFirst ==
    \A i \in 1..(Len(instructions) - 1) :
        instructions[i].modified >= instructions[i + 1].modified

OldestFirst ==
    \A i \in 1..(Len(instructions) - 1) :
        instructions[i].modified <= instructions[i + 1].modified

TitleOrder ==
    \A i \in 1..(Len(instructions) - 1) :
        ~StrLess(Lower(instructions[i + 1].title), Lower(instructions[i].title))

SortHonoured ==
    /\ resp.args.sort = "date_new" => NewestFirst
    /\ resp.args.sort = "date_old" => OldestFirst
    /\ resp.args.sort = "title" => TitleOrder

\* C4 as stated: for every `/` request, whatever the query (empty or not), the
\* documents handed to the page are in the order `sort` names.
C4_AsStated == IndexShown => SortHonoured

\* C4 amended: for every `/` request with a non-empty query q the documents
\* handed to the page are ordered by `modified` descending with sort=date_new,
\* ascending with sort=date_old and by case-insensitive title with sort=title;
\* with an empty q they are in the scan's order, `modified` descending,
\* whatever `sort` is.
C4_SortedWhenQueried ==
    IndexShown =>
        /\ resp.args.q # <<>> => SortHonoured
        /\ resp.args.q = <<>> => NewestFirst

C4_Witness ==
    /\ IndexShown
    /\ resp.args.q # <<>>
    /\ resp.args.sort = "date_old"
    /\ Len(instructions) = 2
    /\ instructions[1].modified < instructions[2].modified

\* C7: every route handler catches every error raised in its body, so each
\* request ends in a response the handler produced and no exception leaves
\* the handler.
C7_NoHandlerRaises == Requested => ~resp.raised

====
